---- MODULE Spec2Model ----
(***************************************************************************)
(* The resource-lifecycle coordinator of the property-management backend:  *)
(* the contract, payment and maintenance-event mutations of the GraphQL    *)
(* resolvers and what they do to Room.status.  The persistent store is a   *)
(* set of records per entity; one action is one whole resolver call.       *)
(***************************************************************************)
EXTENDS Integers, Sequences, FiniteSets, TLC

VARIABLES
    roomStatus,   \* Room.status of every existing Room
    contracts,    \* Contract rows by id (with their ContractRenters links)
    payments,     \* Payment rows by id
    events,       \* MaintenanceEvent rows by id
    renters,      \* Renter rows by id: the Room each lives in, if any
    transactions, \* the createContract inputs of the $transaction callbacks that
                  \* have read and not yet written, by session
    paidOnce,     \* history: ids of the Payment rows that have been PAID
    ctxUser,      \* ctx.user of the latest request: the subject createContext
                  \* resolved from its token, or none
    inflight,     \* the maintenance call that has written the Room and not yet
                  \* its MaintenanceEvent (the two writes are separate awaits)
    last          \* the latest resolver call: its name, target and outcome

vars ==
    <<roomStatus, contracts, payments, events, renters, transactions, paidOnce, ctxUser,
      inflight, last>>

\* ------------------------------------------------------------------ bounds
\* rows a behaviour may hold per table (the tables themselves are unbounded)
MaxContracts == 1
MaxRoomContracts == 2
MaxPayments == 1
MaxEvents == 1
MaxRoomEvents == 2
MaxRenters == 3
MaxRoles == 2

\* ------------------------------------------------------------------ values
\* undefined / null / a field the input does not carry
Null == "NULL"
\* an array argument the input does not carry
AbsentList == <<Null>>
\* the outcome of a call that returned instead of throwing
NoError == "OK"

\* the value of `new Date()` at the call, and a date given by the caller
Now == "now"
GivenDates == {"d1"}

Rooms == {"r1", "r2"}
GhostRoom == "r0"
Renters == {"x", "y"}
GhostRenter == "z"

\* row ids are strings; this one names no row
GhostId == "0"

RoomStatus == {"AVAILABLE", "OCCUPIED", "RESERVED", "MAINTENANCE"}
ContractStatus == {"PENDING", "ACTIVE", "EXPIRED", "TERMINATED"}
PaymentStatus == {"PENDING", "PAID", "OVERDUE", "CANCELLED"}
MaintenanceStatus == {"PENDING", "IN_PROGRESS", "COMPLETED", "CANCELLED"}

ContractType == {"LONG_TERM", "SHORT_TERM"}
MaintenancePriority == {"LOW", "MEDIUM", "HIGH", "URGENT"}
ContractStatusDefault == "ACTIVE"
MaintenanceStatusDefault == "PENDING"

\* String.prototype.toLowerCase on the enum names the resolvers print
toLowerCase(s) ==
    CASE s = "AVAILABLE" -> "available"
      [] s = "OCCUPIED" -> "occupied"
      [] s = "RESERVED" -> "reserved"
      [] s = "MAINTENANCE" -> "maintenance"
      [] s = "TERMINATED" -> "terminated"
      [] s = "EXPIRED" -> "expired"
      [] s = "ACTIVE" -> "active"
      [] s = "PENDING" -> "pending"
      [] OTHER -> s

Range(seq) == {seq[i] : i \in DOMAIN seq}

\* nanoid(): an id no row of the table carries (the least unused one)
NewId(used) ==
    ToString(CHOOSE i \in 1..(Cardinality(used) + 1) :
                 ToString(i) \notin used /\ \A j \in 1..(i - 1) : ToString(j) \in used)

Without(f, k) == [x \in DOMAIN f \ {k} |-> f[x]]

\* what a resolver call was given and how it ended
Call(op, auth, id, input, error) ==
    [op |-> op, auth |-> auth, id |-> id, input |-> input, error |-> error]

\* a resolver call that threw: the store is as before
Failed == UNCHANGED <<roomStatus, contracts, payments, events, paidOnce>>

\* the store refuses a write that gives an enum column a value outside the
\* enum (the GraphQL inputs declare these fields String)
StoreRejects(value, enum) == value # Null /\ value \notin enum
PrismaValidationError == "PrismaClientValidationError"

\* the store finds no row for the where of an update
RecordNotFound == "Record to update not found."

\* ctx.user: the subject of a request, with the role createContext gives it
\* (the User interface also allows ADMIN), or none when there is no valid token
NoUser == [id |-> Null, role |-> Null]
Users ==
    {[id |-> "m1", role |-> "PROPERTY_MANAGER"],
     [id |-> "m2", role |-> "PROPERTY_MANAGER"],
     [id |-> "ux", role |-> "USER"],
     [id |-> "a0", role |-> "ADMIN"]}

\* the subject of a call of which only `!ctx.user` is read
Caller(auth) == IF auth THEN [id |-> "m1", role |-> "PROPERTY_MANAGER"] ELSE NoUser

\* a maintenance call between its room.update and its maintenanceEvent write
InFlight(op, auth, id, input, wroteRoom) ==
    [op |-> op, auth |-> auth, id |-> id, input |-> input, wroteRoom |-> wroteRoom]

\* no maintenance call is between its two writes
NoneInFlight == InFlight(Null, TRUE, Null, Null, FALSE)

\* ------------------------------------------------------------------ Init
\* Rooms exist (createRoom) with no contract, payment or maintenance event yet
Init ==
    /\ roomStatus \in [Rooms -> {"AVAILABLE", "RESERVED"}]
    /\ contracts = << >>
    /\ payments = << >>
    /\ events = << >>
    /\ paidOnce = {}
    /\ renters = [r \in Renters |-> [roomId |-> Null]]
    /\ transactions = << >>
    /\ ctxUser = NoUser
    /\ inflight = NoneInFlight
    /\ last = Call("init", TRUE, Null, Null, NoError)

\* The same, when maintenance may already have been started on room r2:
\* createMaintenanceEvent({roomId: r2, status: IN_PROGRESS}) has run
UnderMaintenance ==
    ("1" :> [roomId |-> "r2", status |-> "IN_PROGRESS", completedDate |-> Null])

InitContract ==
    /\ \/ /\ roomStatus \in [Rooms -> {"AVAILABLE", "RESERVED"}]
          /\ events = << >>
       \/ /\ roomStatus \in {rs \in [Rooms -> {"AVAILABLE", "MAINTENANCE"}] :
                                rs["r1"] = "AVAILABLE" /\ rs["r2"] = "MAINTENANCE"}
          /\ events = UnderMaintenance
    /\ contracts = << >>
    /\ payments = << >>
    /\ paidOnce = {}
    /\ renters = [r \in Renters |-> [roomId |-> Null]]
    /\ transactions = << >>
    /\ ctxUser = NoUser
    /\ inflight = NoneInFlight
    /\ last = Call("init", TRUE, Null, Null, NoError)

\* ------------------------------------------------------------------ contracts
ContractScalars == {"name", "startDate", "endDate", "amount"}

ContractRequiredFields ==
    << [field |-> "name", message |-> "Name is required"],
       [field |-> "renterIds", message |-> "Renter is required"],
       [field |-> "roomId", message |-> "Room is required"],
       [field |-> "startDate", message |-> "Start date is required"],
       [field |-> "endDate", message |-> "End date is required"],
       [field |-> "amount", message |-> "Amount is required" ] >>

\* input[field] is truthy (an empty array is)
FieldTruthy(input, field) ==
    CASE field = "renterIds" -> input.renterIds # AbsentList
      [] field = "roomId" -> input.roomId # Null
      [] field = "renterId" -> input.renterId # Null
      [] field = "status" -> input.status # Null
      [] OTHER -> field \in input.scalars

\* the message of the first required field that is missing, or Null
RECURSIVE FirstMissing(_, _, _)
FirstMissing(input, required, i) ==
    IF i > Len(required) THEN Null
    ELSE IF ~FieldTruthy(input, required[i].field) THEN required[i].message
    ELSE FirstMissing(input, required, i + 1)

\* prisma.renter.findMany({ where: { id: { in: ids } } })
FindRenters(ids) == {r \in DOMAIN renters : r \in Range(ids)}

\* createContract that does not look at the Room's status
CreateContractError_AnyRoomStatus(auth, input) ==
    IF ~auth THEN "You must be authenticated to create a contract"
    ELSE IF FirstMissing(input, ContractRequiredFields, 1) # Null
        THEN FirstMissing(input, ContractRequiredFields, 1)
    ELSE IF Len(input.renterIds) = 0 THEN "At least one renter is required"
    ELSE IF input.roomId \notin Rooms THEN "Room not found"
    ELSE IF Cardinality(FindRenters(input.renterIds)) # Len(input.renterIds)
        THEN "One or more renters not found"
    ELSE IF StoreRejects(input.contractType, ContractType) THEN PrismaValidationError
    ELSE NoError

\* the error createContract throws on this input in this state, or NoError
CreateContractError(auth, input) ==
    IF ~auth THEN "You must be authenticated to create a contract"
    ELSE IF FirstMissing(input, ContractRequiredFields, 1) # Null
        THEN FirstMissing(input, ContractRequiredFields, 1)
    ELSE IF Len(input.renterIds) = 0 THEN "At least one renter is required"
    ELSE IF input.roomId \notin Rooms THEN "Room not found"
    ELSE IF roomStatus[input.roomId] # "AVAILABLE"
        THEN "Room is currently " \o toLowerCase(roomStatus[input.roomId])
    ELSE IF Cardinality(FindRenters(input.renterIds)) # Len(input.renterIds)
        THEN "One or more renters not found"
    ELSE IF StoreRejects(input.contractType, ContractType) THEN PrismaValidationError
    ELSE NoError

NewContract(input) ==
    [roomId |-> input.roomId,
     renters |-> Range(input.renterIds),
     status |-> IF input.status = Null THEN ContractStatusDefault ELSE input.status,
     terminationReason |-> Null,
     terminationDate |-> Null]

CreateContract(auth, input) ==
    LET err == CreateContractError(auth, input) IN
    /\ UNCHANGED <<inflight, renters, transactions>>
    /\ last' = Call("createContract", auth, input.roomId, input, err)
    /\ IF err # NoError THEN Failed
       ELSE /\ roomStatus' = [roomStatus EXCEPT ![input.roomId] = "OCCUPIED"]
            /\ contracts' = contracts @@
                   (NewId(DOMAIN contracts) :> NewContract(input))
            /\ UNCHANGED <<payments, events, paidOnce>>

\* the contracts the room-release query counts: other rows on the room
\* that share a renter with the contract being closed
OtherContractsOfRenters(cs, id, roomId, renterIds) ==
    {c \in DOMAIN cs :
        /\ c # id
        /\ cs[c].roomId = roomId
        /\ cs[c].renters \cap renterIds # {}}

\* Room.status after the room-release step of updateContract/terminateContract
ReleaseRoom(rs, cs, id) ==
    IF OtherContractsOfRenters(cs, id, cs[id].roomId, cs[id].renters) = {}
    THEN [rs EXCEPT ![cs[id].roomId] = "AVAILABLE"]
    ELSE rs

\* prisma.contract.update({ data: input }): the fields the patch carries
ApplyContractPatch(c, patch) ==
    [c EXCEPT
        !.status = IF patch.status = Null THEN @ ELSE patch.status,
        !.terminationReason =
            IF patch.terminationReason = Null THEN @ ELSE patch.terminationReason,
        !.terminationDate =
            IF patch.terminationDate = Null THEN @ ELSE patch.terminationDate]

UpdateContractError(auth, id) ==
    IF ~auth THEN "You must be authenticated to update a contract"
    ELSE IF id \notin DOMAIN contracts THEN "Contract not found"
    ELSE NoError

UpdateContract(auth, id, patch) ==
    LET err == UpdateContractError(auth, id) IN
    /\ UNCHANGED <<inflight, renters, transactions>>
    /\ last' = Call("updateContract", auth, id, patch.status, err)
    /\ IF err # NoError THEN Failed
       ELSE LET updated == [contracts EXCEPT ![id] = ApplyContractPatch(@, patch)] IN
            /\ contracts' = updated
            /\ roomStatus' =
                   IF patch.status \in {"TERMINATED", "EXPIRED"}
                   THEN ReleaseRoom(roomStatus, updated, id)
                   ELSE roomStatus
            /\ UNCHANGED <<payments, events, paidOnce>>

ContractPayments(id) == {p \in DOMAIN payments : payments[p].contractId = id}

\* deleteContract that does not look at the contract's payments
DeleteContractError_IgnoresPayments(auth, id) ==
    IF ~auth THEN "You must be authenticated to delete a contract"
    ELSE IF id \notin DOMAIN contracts THEN "Contract not found"
    ELSE NoError

DeleteContractError(auth, id) ==
    IF ~auth THEN "You must be authenticated to delete a contract"
    ELSE IF id \notin DOMAIN contracts THEN "Contract not found"
    ELSE IF Cardinality(ContractPayments(id)) > 0
        THEN "Cannot delete a contract with associated payments. Terminate it instead."
    ELSE NoError

DeleteContract(auth, id) ==
    LET err == DeleteContractError(auth, id) IN
    /\ UNCHANGED <<inflight, renters, transactions>>
    /\ last' = Call("deleteContract", auth, id, Null, err)
    /\ IF err # NoError THEN Failed
       ELSE /\ contracts' = Without(contracts, id)
            /\ UNCHANGED <<roomStatus, payments, events, paidOnce>>

\* a reason check that lets the empty string through
ReasonMissing_NullOnly(reason) == reason = Null

\* !reason
ReasonMissing(reason) == reason = Null \/ reason = ""

\* terminateContract that refuses TERMINATED contracts only
TerminateContractError_ExpiredAllowed(auth, id, reason) ==
    IF ~auth THEN "You must be authenticated to terminate a contract"
    ELSE IF ReasonMissing(reason) THEN "Termination reason is required"
    ELSE IF id \notin DOMAIN contracts THEN "Contract not found"
    ELSE IF contracts[id].status = "TERMINATED"
        THEN "Contract is already " \o toLowerCase(contracts[id].status)
    ELSE NoError

TerminateContractError(auth, id, reason) ==
    IF ~auth THEN "You must be authenticated to terminate a contract"
    ELSE IF ReasonMissing(reason) THEN "Termination reason is required"
    ELSE IF id \notin DOMAIN contracts THEN "Contract not found"
    ELSE IF contracts[id].status = "TERMINATED" \/ contracts[id].status = "EXPIRED"
        THEN "Contract is already " \o toLowerCase(contracts[id].status)
    ELSE NoError

\* terminationDate = new Date() when the caller gives none
DefaultDate(date) == IF date = Null THEN Now ELSE date

TerminateContract(auth, id, reason, terminationDate) ==
    LET err == TerminateContractError(auth, id, reason) IN
    /\ UNCHANGED <<inflight, renters, transactions>>
    /\ last' = Call("terminateContract", auth, id,
                   [reason |-> reason, terminationDate |-> terminationDate], err)
    /\ IF err # NoError THEN Failed
       ELSE LET updated == [contracts EXCEPT ![id] =
                    [@ EXCEPT !.status = "TERMINATED",
                              !.terminationReason = reason,
                              !.terminationDate = DefaultDate(terminationDate)]] IN
            /\ contracts' = updated
            /\ roomStatus' = ReleaseRoom(roomStatus, updated, id)
            /\ UNCHANGED <<payments, events, paidOnce>>

\* ------------------------------------------------------------------ contracts, transaction by transaction
\* the requests that may run at the same time
Sessions == {"s1", "s2"}

\* createContract up to the reads of its $transaction callback (room.findUnique,
\* renter.findMany) at read committed: a call that throws ends here with nothing
\* written, a call that passes the checks has its writes still to come
CreateContractRead(session, auth, input) ==
    LET err == CreateContractError(auth, input) IN
    /\ session \notin DOMAIN transactions
    /\ ctxUser' = Caller(auth)
    /\ IF err # NoError
       THEN /\ last' = Call("createContract", auth, input.roomId, input, err)
            /\ UNCHANGED transactions
       ELSE /\ transactions' = (session :> input) @@ transactions
            /\ UNCHANGED last
    /\ UNCHANGED <<roomStatus, contracts, payments, events, renters, paidOnce, inflight>>

\* the writes of the callback and its commit: room.update where {id} (it waits
\* for the row lock of a transaction that wrote the Room, then writes), and
\* contract.create
CreateContractCommit(session) ==
    /\ session \in DOMAIN transactions
    /\ LET input == transactions[session] IN
       /\ roomStatus' = [roomStatus EXCEPT ![input.roomId] = "OCCUPIED"]
       /\ contracts' = contracts @@ (NewId(DOMAIN contracts) :> NewContract(input))
       /\ last' = Call("createContract", TRUE, input.roomId, input, NoError)
    /\ transactions' = Without(transactions, session)
    /\ UNCHANGED <<payments, events, renters, paidOnce, inflight, ctxUser>>

\* ------------------------------------------------------------------ maintenance
MaintenanceScalars == {"title", "description"}

MaintenanceRequiredFields ==
    << [field |-> "title", message |-> "Title is required"],
       [field |-> "description", message |-> "Description is required"],
       [field |-> "roomId", message |-> "Room ID is required"] >>

CreateMaintenanceEventError(auth, input) ==
    IF ~auth THEN "You must be authenticated to create a maintenance event"
    ELSE IF FirstMissing(input, MaintenanceRequiredFields, 1) # Null
        THEN FirstMissing(input, MaintenanceRequiredFields, 1)
    ELSE IF input.roomId \notin Rooms THEN "Room not found"
    ELSE NoError

NewMaintenanceEvent(input) ==
    [roomId |-> input.roomId,
     status |-> IF input.status = Null THEN MaintenanceStatusDefault ELSE input.status,
     completedDate |-> Null]

\* createMaintenanceEvent: its room.update, made before the event is created
CreateRoomWrite(rs, input) ==
    IF input.status = "IN_PROGRESS"
    THEN [rs EXCEPT ![input.roomId] = "MAINTENANCE"]
    ELSE rs

\* createMaintenanceEvent: its maintenanceEvent.create, and what it throws
CreateEventWrite(es, input) ==
    IF StoreRejects(input.priority, MaintenancePriority) THEN es
    ELSE es @@ (NewId(DOMAIN es) :> NewMaintenanceEvent(input))

CreateEventWriteError(input) ==
    IF StoreRejects(input.priority, MaintenancePriority) THEN PrismaValidationError
    ELSE NoError

CreateMaintenanceEvent(auth, input) ==
    LET err == CreateMaintenanceEventError(auth, input) IN
    /\ UNCHANGED <<inflight, renters, transactions>>
    /\ last' = Call("createMaintenanceEvent", auth, input.roomId, input,
                    IF err # NoError THEN err ELSE CreateEventWriteError(input))
    /\ IF err # NoError THEN Failed
       ELSE /\ roomStatus' = CreateRoomWrite(roomStatus, input)
            /\ events' = CreateEventWrite(events, input)
            /\ UNCHANGED <<contracts, payments, paidOnce>>

\* handleStatusTransition: the patch it leaves in `input`
TransitionPatch(patch) ==
    IF patch.status = "COMPLETED" /\ patch.completedDate = Null
    THEN [patch EXCEPT !.completedDate = Now]
    ELSE patch

\* a transition that takes for maintenance only the rooms that are free
TransitionRoomStatus_FreeRoomsOnly(rs, patch, event) ==
    LET completed ==
            IF /\ patch.status = "COMPLETED" /\ patch.completedDate = Null
               /\ rs[event.roomId] = "MAINTENANCE"
            THEN [rs EXCEPT ![event.roomId] = "AVAILABLE"]
            ELSE rs
    IN  IF /\ patch.status = "IN_PROGRESS" /\ event.status # "IN_PROGRESS"
           /\ rs[event.roomId] = "AVAILABLE"
        THEN [completed EXCEPT ![event.roomId] = "MAINTENANCE"]
        ELSE completed

\* handleStatusTransition: the Room.status writes it makes
TransitionRoomStatus(rs, patch, event) ==
    LET completed ==
            IF /\ patch.status = "COMPLETED" /\ patch.completedDate = Null
               /\ rs[event.roomId] = "MAINTENANCE"
            THEN [rs EXCEPT ![event.roomId] = "AVAILABLE"]
            ELSE rs
    IN  IF patch.status = "IN_PROGRESS" /\ event.status # "IN_PROGRESS"
        THEN [completed EXCEPT ![event.roomId] = "MAINTENANCE"]
        ELSE completed

\* prisma.maintenanceEvent.update({ data: input })
ApplyMaintenancePatch(e, patch) ==
    [e EXCEPT
        !.status = IF patch.status = Null THEN @ ELSE patch.status,
        !.completedDate = IF patch.completedDate = Null THEN @ ELSE patch.completedDate]

UpdateMaintenanceEventError(auth, id) ==
    IF ~auth THEN "You must be authenticated to update a maintenance event"
    ELSE IF id \notin DOMAIN events THEN "Maintenance event not found"
    ELSE NoError

\* updateMaintenanceEvent: its maintenanceEvent.update, and what it throws
UpdateEventWrite(es, id, patch) ==
    IF StoreRejects(patch.priority, MaintenancePriority) THEN es
    ELSE [es EXCEPT ![id] = ApplyMaintenancePatch(@, TransitionPatch(patch))]

UpdateEventWriteError(patch) ==
    IF StoreRejects(patch.priority, MaintenancePriority) THEN PrismaValidationError
    ELSE NoError

UpdateMaintenanceEvent(auth, id, patch) ==
    LET err == UpdateMaintenanceEventError(auth, id) IN
    /\ UNCHANGED <<inflight, renters, transactions>>
    /\ last' = Call("updateMaintenanceEvent", auth, id, patch,
                    IF err # NoError THEN err ELSE UpdateEventWriteError(patch))
    /\ IF err # NoError THEN Failed
       ELSE /\ roomStatus' = TransitionRoomStatus(roomStatus, patch, events[id])
            /\ events' = UpdateEventWrite(events, id, patch)
            /\ UNCHANGED <<contracts, payments, paidOnce>>

\* deleteMaintenanceEvent that does not look at the event's status
DeleteMaintenanceEventError_AnyStatus(auth, id) ==
    IF ~auth THEN "You must be authenticated to delete a maintenance event"
    ELSE IF id \notin DOMAIN events THEN "Maintenance event not found"
    ELSE NoError

DeleteMaintenanceEventError(auth, id) ==
    IF ~auth THEN "You must be authenticated to delete a maintenance event"
    ELSE IF id \notin DOMAIN events THEN "Maintenance event not found"
    ELSE IF events[id].status = "IN_PROGRESS"
        THEN "Cannot delete a maintenance event that is in progress. Complete or cancel it first."
    ELSE NoError

DeleteMaintenanceEvent(auth, id) ==
    LET err == DeleteMaintenanceEventError(auth, id) IN
    /\ UNCHANGED <<inflight, renters, transactions>>
    /\ last' = Call("deleteMaintenanceEvent", auth, id, Null, err)
    /\ IF err # NoError THEN Failed
       ELSE /\ events' = Without(events, id)
            /\ UNCHANGED <<roomStatus, contracts, payments, paidOnce>>

\* ------------------------------------------------------------------ maintenance, await by await
\* createMaintenanceEvent and updateMaintenanceEvent run outside $transaction:
\* the room.update has committed when the maintenanceEvent write is issued, and
\* other calls run in between.  The call in flight is kept in `inflight`.


\* createMaintenanceEvent up to and including its room.update
CreateMaintenanceEventRoomStep(auth, input) ==
    /\ inflight = NoneInFlight
    /\ CreateMaintenanceEventError(auth, input) = NoError
    /\ roomStatus' = CreateRoomWrite(roomStatus, input)
    /\ inflight' = InFlight("createMaintenanceEvent", auth, input.roomId, input,
                            input.status = "IN_PROGRESS")
    /\ ctxUser' = Caller(auth)
    /\ UNCHANGED <<contracts, payments, events, renters, transactions, paidOnce, last>>

\* createMaintenanceEvent from its maintenanceEvent.create on
CreateMaintenanceEventRowStep ==
    /\ inflight.op = "createMaintenanceEvent"
    /\ events' = CreateEventWrite(events, inflight.input)
    /\ last' = Call(inflight.op, inflight.auth, inflight.id, inflight.input,
                    CreateEventWriteError(inflight.input))
    /\ inflight' = NoneInFlight
    /\ UNCHANGED <<roomStatus, contracts, payments, renters, transactions, paidOnce, ctxUser>>

\* updateMaintenanceEvent up to and including handleStatusTransition
UpdateMaintenanceEventRoomStep(auth, id, patch) ==
    /\ inflight = NoneInFlight
    /\ UpdateMaintenanceEventError(auth, id) = NoError
    /\ roomStatus' = TransitionRoomStatus(roomStatus, patch, events[id])
    /\ inflight' = InFlight("updateMaintenanceEvent", auth, id, patch,
                            /\ patch.status \in {"IN_PROGRESS", "COMPLETED"}
                            /\ TransitionRoomStatus(roomStatus, patch, events[id])
                                   # roomStatus)
    /\ ctxUser' = Caller(auth)
    /\ UNCHANGED <<contracts, payments, events, renters, transactions, paidOnce, last>>

\* updateMaintenanceEvent from its maintenanceEvent.update on; the row may
\* have been deleted since it was read
UpdateMaintenanceEventRowStep ==
    /\ inflight.op = "updateMaintenanceEvent"
    /\ IF inflight.id \in DOMAIN events
       THEN /\ events' = UpdateEventWrite(events, inflight.id, inflight.input)
            /\ last' = Call(inflight.op, inflight.auth, inflight.id, inflight.input,
                            UpdateEventWriteError(inflight.input))
       ELSE /\ events' = events
            /\ last' = Call(inflight.op, inflight.auth, inflight.id, inflight.input,
                            RecordNotFound)
    /\ inflight' = NoneInFlight
    /\ UNCHANGED <<roomStatus, contracts, payments, renters, transactions, paidOnce, ctxUser>>

\* ------------------------------------------------------------------ payments
PaymentScalars == {"amount", "dueDate"}

PaymentRequiredFields ==
    << [field |-> "amount", message |-> "Amount is required"],
       [field |-> "dueDate", message |-> "Due date is required"],
       [field |-> "renterId", message |-> "Renter ID is required"],
       [field |-> "status", message |-> "Status is required"] >>

\* contractWithRenters.renters.some(r => r.id === renterId)
ContractHasRenter(contractId, renterId) == renterId \in contracts[contractId].renters

CreatePaymentError(auth, input) ==
    IF ~auth THEN "You must be authenticated to create a payment"
    ELSE IF FirstMissing(input, PaymentRequiredFields, 1) # Null
        THEN FirstMissing(input, PaymentRequiredFields, 1)
    ELSE IF input.renterId \notin DOMAIN renters THEN "Renter not found"
    ELSE IF input.contractId # Null /\ input.contractId \notin DOMAIN contracts
        THEN "Contract not found"
    ELSE IF input.contractId # Null /\ ~ContractHasRenter(input.contractId, input.renterId)
        THEN "Contract does not belong to the specified renter"
    ELSE NoError

NewPayment(input) ==
    [renterId |-> input.renterId,
     contractId |-> input.contractId,
     status |-> input.status,
     paidDate |-> input.paidDate,
     description |-> input.description]

\* the payments that have been PAID, after a write of `status` to payment id
Paid(id, status) == IF status = "PAID" THEN paidOnce \cup {id} ELSE paidOnce

CreatePayment(auth, input) ==
    LET err == CreatePaymentError(auth, input)
        id == NewId(DOMAIN payments)
    IN
    /\ UNCHANGED <<inflight, renters, transactions>>
    /\ last' = Call("createPayment", auth, Null, input, err)
    /\ IF err # NoError THEN Failed
       ELSE /\ payments' = payments @@ (id :> NewPayment(input))
            /\ paidOnce' = IF input.status = "PAID"
                               THEN paidOnce \cup {id} ELSE paidOnce \ {id}
            /\ UNCHANGED <<roomStatus, contracts, events>>

UpdatePaymentError(auth, id, patch) ==
    IF ~auth THEN "You must be authenticated to update a payment"
    ELSE IF id \notin DOMAIN payments THEN "Payment not found"
    ELSE IF /\ patch.renterId # Null /\ patch.renterId # payments[id].renterId
            /\ patch.renterId \notin DOMAIN renters
        THEN "Renter not found"
    ELSE IF patch.contractId # Null /\ patch.contractId # payments[id].contractId
        THEN IF patch.contractId \notin DOMAIN contracts THEN "Contract not found"
             ELSE IF ~ContractHasRenter(patch.contractId,
                         IF patch.renterId # Null THEN patch.renterId
                         ELSE payments[id].renterId)
                 THEN "Contract does not belong to the renter"
             ELSE NoError
    ELSE NoError

\* prisma.payment.update({ data: input })
ApplyPaymentPatch(pm, patch) ==
    [pm EXCEPT
        !.status = IF patch.status = Null THEN @ ELSE patch.status,
        !.paidDate = IF patch.paidDate = Null THEN @ ELSE patch.paidDate,
        !.renterId = IF patch.renterId = Null THEN @ ELSE patch.renterId,
        !.contractId = IF patch.contractId = Null THEN @ ELSE patch.contractId]

UpdatePayment(auth, id, patch) ==
    LET err == UpdatePaymentError(auth, id, patch) IN
    /\ UNCHANGED <<inflight, renters, transactions>>
    /\ last' = Call("updatePayment", auth, id, patch, err)
    /\ IF err # NoError THEN Failed
       ELSE /\ payments' = [payments EXCEPT ![id] = ApplyPaymentPatch(@, patch)]
            /\ paidOnce' = Paid(id, patch.status)
            /\ UNCHANGED <<roomStatus, contracts, events>>

DeletePaymentError(auth, id) ==
    IF ~auth THEN "You must be authenticated to delete a payment"
    ELSE IF id \notin DOMAIN payments THEN "Payment not found"
    ELSE IF payments[id].status = "PAID"
        THEN "Cannot delete a payment that has been paid. Change its status instead."
    ELSE NoError

DeletePayment(auth, id) ==
    LET err == DeletePaymentError(auth, id) IN
    /\ UNCHANGED <<inflight, renters, transactions>>
    /\ last' = Call("deletePayment", auth, id, Null, err)
    /\ IF err # NoError THEN Failed
       ELSE /\ payments' = Without(payments, id)
            /\ UNCHANGED <<roomStatus, contracts, events, paidOnce>>

\* markPaymentAsPaid that does not look at the payment's status
MarkPaymentAsPaidError_IgnoresPaid(auth, id) ==
    IF ~auth THEN "You must be authenticated to mark a payment as paid"
    ELSE IF id \notin DOMAIN payments THEN "Payment not found"
    ELSE NoError

MarkPaymentAsPaidError(auth, id) ==
    IF ~auth THEN "You must be authenticated to mark a payment as paid"
    ELSE IF id \notin DOMAIN payments THEN "Payment not found"
    ELSE IF payments[id].status = "PAID" THEN "Payment has already been marked as paid"
    ELSE NoError

\* reference || payment.description
Either(a, b) == IF a = Null \/ a = "" THEN b ELSE a

MarkPaymentAsPaid(auth, id, paidDate, reference) ==
    LET err == MarkPaymentAsPaidError(auth, id) IN
    /\ UNCHANGED <<inflight, renters, transactions>>
    /\ last' = Call("markPaymentAsPaid", auth, id,
                   [paidDate |-> paidDate, reference |-> reference], err)
    /\ IF err # NoError THEN Failed
       ELSE /\ payments' = [payments EXCEPT ![id] =
                   [@ EXCEPT !.status = "PAID",
                             !.paidDate = DefaultDate(paidDate),
                             !.description = Either(reference, @)]]
            /\ paidOnce' = Paid(id, "PAID")
            /\ UNCHANGED <<roomStatus, contracts, events>>

\* ------------------------------------------------------------------ permissions
\* Room.propertyId, Property.userId and Renter.user: who owns what (rows the
\* mutations modelled here never write)
Properties == {"p1", "p2"}
RoomProperty == [r \in Rooms |-> IF r = "r1" THEN "p1" ELSE "p2"]
PropertyUserId == [p \in Properties |-> IF p = "p1" THEN "m1" ELSE "m2"]
RenterUser == [r \in Renters |-> IF r = "x" THEN "ux" ELSE Null]

\* Document.renterId: the documents there are and the renter of each
Documents == {"doc1", "doc2"}
DocumentRenter == [d \in Documents |-> IF d = "doc1" THEN "x" ELSE "y"]

\* the resources and actions createDefaultPermissions creates permissions for
Resources ==
    {"property", "room", "renter", "contract", "service", "payment", "expense", "user"}
Actions == {"create", "read", "update", "delete", "list"}

\* the rolePermission rows createDefaultPermissions assigns to a role
RolePermissions(role) ==
    {p \in Resources \X Actions :
        \/ role = "ADMIN"
        \/ /\ role = "PROPERTY_MANAGER"
           /\ \/ p[2] \in {"read", "list"}
              \/ p[1] \notin {"expense", "user"} /\ p[2] # "delete"
        \/ /\ role = "USER"
           /\ p[2] \in {"read", "list"}
           /\ p[1] \in {"property", "room", "contract", "service"}
        \/ /\ role = "RENTER"
           /\ p[2] \in {"read", "list"}
           /\ \/ p[1] = "contract"
              \/ p[1] \in {"room", "payment", "renter"} /\ p[2] = "read"}

\* what awaiting a rule gives: true, false, or the AuthorizationError it throws
AuthenticationRequired == "Authentication required"
NotAuthorized == "Not authorized"

\* the rule hasPermission(resource, action) applied to (context, params)
hasPermission(resource, action, user, params) ==
    IF user = NoUser THEN AuthenticationRequired
    ELSE IF user.role = "ADMIN" THEN "true"
    ELSE IF <<resource, action>> \in RolePermissions(user.role) THEN "true"
    ELSE "false"

\* a switch of isOwner that resolves a contract to the account of a renter of it
OwnerUserId_ContractOfRenter(resource, resourceId) ==
    CASE resource = "property" ->
             IF resourceId \in Properties THEN PropertyUserId[resourceId] ELSE Null
      [] resource = "room" ->
             IF resourceId \in Rooms THEN PropertyUserId[RoomProperty[resourceId]]
             ELSE Null
      [] resource = "renter" ->
             IF resourceId \in DOMAIN renters \cap Renters
             THEN RenterUser[resourceId] ELSE Null
      [] resource = "document" ->
             IF resourceId \in Documents /\ DocumentRenter[resourceId] \in DOMAIN renters
             THEN RenterUser[DocumentRenter[resourceId]] ELSE Null
      [] resource = "contract" ->
             IF resourceId \in DOMAIN contracts /\ "x" \in contracts[resourceId].renters
             THEN RenterUser["x"]
             ELSE Null
      [] OTHER -> Null

\* the userId the switch of isOwner compares with user.id; Null where the
\* optional chain gives undefined
OwnerUserId(resource, resourceId) ==
    CASE resource = "property" ->
             IF resourceId \in Properties THEN PropertyUserId[resourceId] ELSE Null
      [] resource = "room" ->
             IF resourceId \in Rooms THEN PropertyUserId[RoomProperty[resourceId]]
             ELSE Null
      [] resource = "renter" ->
             IF resourceId \in DOMAIN renters \cap Renters
             THEN RenterUser[resourceId] ELSE Null
      [] resource = "document" ->
             IF resourceId \in Documents /\ DocumentRenter[resourceId] \in DOMAIN renters
             THEN RenterUser[DocumentRenter[resourceId]] ELSE Null
      [] resource = "contract" ->
             IF resourceId \in DOMAIN contracts
             THEN PropertyUserId[RoomProperty[contracts[resourceId].roomId]]
             ELSE Null
      [] OTHER -> Null

\* the rule isOwner(resource, idField) applied to (context, params)
isOwner(resource, idField, user, params) ==
    IF user = NoUser THEN AuthenticationRequired
    ELSE IF user.role = "ADMIN" THEN "true"
    ELSE IF params[idField] = Null THEN "false"
    ELSE IF resource \notin {"property", "room", "renter", "document", "contract"}
    THEN "false"
    ELSE IF OwnerUserId(resource, params[idField]) = user.id THEN "true"
    ELSE "false"

\* a rule as data: which of the two it is and its two arguments
HasPermissionRule(resource, action) ==
    [rule |-> "hasPermission", resource |-> resource, arg |-> action]
IsOwnerRule(resource, idField) ==
    [rule |-> "isOwner", resource |-> resource, arg |-> idField]

Evaluate(r, user, params) ==
    IF r.rule = "hasPermission" THEN hasPermission(r.resource, r.arg, user, params)
    ELSE isOwner(r.resource, r.arg, user, params)

\* and(...rules): false at the first rule that is, a throw passes through
RECURSIVE and(_, _, _)
and(rules, user, params) ==
    IF rules = << >> THEN "true"
    ELSE LET first == Evaluate(Head(rules), user, params)
         IN  IF first = "true" THEN and(Tail(rules), user, params) ELSE first

\* or(...rules): true at the first rule that is, a throw passes through
RECURSIVE or(_, _, _)
or(rules, user, params) ==
    IF rules = << >> THEN "false"
    ELSE LET first == Evaluate(Head(rules), user, params)
         IN  IF first = "false" THEN or(Tail(rules), user, params) ELSE first

Combine(comb, rules, user, params) ==
    IF comb = "and" THEN and(rules, user, params) ELSE or(rules, user, params)

\* what the resolver applyPermission returns throws before the wrapped resolver runs
ApplyPermissionError(allowed) ==
    IF allowed = AuthenticationRequired THEN AuthenticationRequired
    ELSE IF allowed = "false" THEN NotAuthorized
    ELSE NoError

\* applyPermission(rule, resolver) around a resolver that only reads
ApplyPermission(user, comb, rules, params) ==
    /\ ctxUser' = user
    /\ last' = Call("applyPermission", user # NoUser, params.id,
                    [comb |-> comb, rules |-> rules],
                    ApplyPermissionError(Combine(comb, rules, user, params)))
    /\ UNCHANGED <<roomStatus, contracts, payments, events, renters, transactions, paidOnce, inflight>>

\* the names of the roles of the registry, and one it does not have
RoleNames == {"ADMIN", "USER", "PROPERTY_MANAGER", "RENTER"}
UnknownRole == "GUEST"

\* utils hasPermission(user, resource, action) on a user loaded with userRoles
\* (each with its role's rolePermissions) and the isRenter column
hasPermissionOfUser(user, resource, action) ==
    IF \E i \in DOMAIN user.userRoles : user.userRoles[i] = "ADMIN" THEN "true"
    ELSE IF \E i \in DOMAIN user.userRoles :
                <<resource, action>> \in RolePermissions(user.userRoles[i])
    THEN "true"
    ELSE IF user.isRenter /\ resource = "renter" /\ action = "read" THEN "true"
    ELSE "false"

\* a check of utils hasPermission, which reads nothing but its arguments: no
\* context is involved
HasPermissionOfUser(user, resource, action) ==
    /\ ctxUser' = NoUser
    /\ last' = Call("hasPermission", TRUE, Null,
                    [user |-> user, resource |-> resource, action |-> action],
                    hasPermissionOfUser(user, resource, action))
    /\ UNCHANGED <<roomStatus, contracts, payments, events, renters, transactions,
                   paidOnce, inflight>>

\* createContext on a token of the user id whose row has the userRoles: the
\* role of context.user is that of the first userRole, USER with none
createContext(id, userRoles) ==
    [id |-> id, role |-> IF Len(userRoles) > 0 THEN userRoles[1] ELSE "USER"]

\* a request of the user id: createContext, then applyPermission(rule, resolver)
\* around a resolver that only reads
Request(id, userRoles, comb, rules, params) ==
    LET user == createContext(id, userRoles) IN
    /\ ctxUser' = user
    /\ last' = Call("request", TRUE, params.id,
                    [userRoles |-> userRoles, comb |-> comb, rules |-> rules],
                    ApplyPermissionError(Combine(comb, rules, user, params)))
    /\ UNCHANGED <<roomStatus, contracts, payments, events, renters, transactions,
                   paidOnce, inflight>>

\* ------------------------------------------------------------------ rooms
UpdateRoomError(id, input) ==
    IF id \notin Rooms THEN RecordNotFound
    ELSE IF StoreRejects(input.status, RoomStatus) THEN PrismaValidationError
    ELSE NoError

\* updateRoom: prisma.room.update with the input as data; ctx.user is not read
UpdateRoom(user, id, input) ==
    /\ ctxUser' = user
    /\ last' = Call("updateRoom", user # NoUser, id, input, UpdateRoomError(id, input))
    /\ roomStatus' =
           IF UpdateRoomError(id, input) = NoError /\ input.status # Null
           THEN [roomStatus EXCEPT ![id] = input.status]
           ELSE roomStatus
    /\ UNCHANGED <<contracts, payments, events, renters, transactions, paidOnce, inflight>>

\* ------------------------------------------------------------------ renters
RenterRequiredFields == <<"name", "phone">>

\* the rows renter.count finds for where: {roomId} (and id: {not: id})
RentersIn(rs, roomId, id) == {r \in DOMAIN rs : r # id /\ rs[r].roomId = roomId}

\* the Property-manager test of the renter mutations on a room
NotManagerOf(user, roomId) ==
    /\ user.role # "ADMIN"
    /\ user.role = "PROPERTY_MANAGER"
    /\ PropertyUserId[RoomProperty[roomId]] # user.id

\* the same on renter.room?.property?.userId: undefined for a renter without room
NotManagerOfRenter(user, renter) ==
    /\ user.role # "ADMIN"
    /\ user.role = "PROPERTY_MANAGER"
    /\ \/ renter.roomId = Null
       \/ PropertyUserId[RoomProperty[renter.roomId]] # user.id

CreateRenterError(user, input) ==
    IF user = NoUser THEN "You must be authenticated to create a renter"
    ELSE IF "name" \notin input.scalars THEN "Name is required"
    ELSE IF "phone" \notin input.scalars THEN "Phone number is required"
    ELSE IF input.roomId = Null THEN NoError
    ELSE IF input.roomId \notin Rooms THEN "Room not found"
    ELSE IF NotManagerOf(user, input.roomId)
    THEN "You do not have permission to add renters to this room"
    ELSE IF /\ roomStatus[input.roomId] = "OCCUPIED"
            /\ RentersIn(renters, input.roomId, Null) # {}
    THEN "This room is already occupied by another renter"
    ELSE NoError

CreateRenter(user, input) ==
    LET err == CreateRenterError(user, input) IN
    /\ ctxUser' = user
    /\ last' = Call("createRenter", user # NoUser, Null, input, err)
    /\ IF err # NoError THEN UNCHANGED <<roomStatus, renters, transactions>>
       ELSE /\ renters' = (NewId(DOMAIN renters) :> [roomId |-> input.roomId]) @@ renters
            /\ roomStatus' = IF input.roomId # Null
                             THEN [roomStatus EXCEPT ![input.roomId] = "OCCUPIED"]
                             ELSE roomStatus
    /\ UNCHANGED <<contracts, payments, events, paidOnce, inflight, transactions>>

\* input.roomId && input.roomId !== renter.roomId
RoomChanges(id, input) == input.roomId # Null /\ input.roomId # renters[id].roomId

UpdateRenterError(user, id, input) ==
    IF user = NoUser THEN "You must be authenticated to update a renter"
    ELSE IF id \notin DOMAIN renters THEN "Renter not found"
    ELSE IF NotManagerOfRenter(user, renters[id])
    THEN "You do not have permission to update this renter"
    ELSE IF ~RoomChanges(id, input) THEN NoError
    ELSE IF input.roomId \notin Rooms THEN "New room not found"
    ELSE IF NotManagerOf(user, input.roomId)
    THEN "You do not have permission to move this renter to the specified room"
    ELSE IF /\ roomStatus[input.roomId] = "OCCUPIED"
            /\ RentersIn(renters, input.roomId, Null) # {}
    THEN "The new room is already occupied by another renter"
    ELSE NoError

\* the Room writes of updateRenter once the renter row is written: the new
\* room, then the old one when no other renter lives in it
MoveRoomStatus(rs, id, input) ==
    LET old == renters[id].roomId
        moved == [rs EXCEPT ![input.roomId] = "OCCUPIED"]
    IN  IF old # Null /\ RentersIn(renters, old, id) = {}
        THEN [moved EXCEPT ![old] = "AVAILABLE"]
        ELSE moved

UpdateRenter(user, id, input) ==
    LET err == UpdateRenterError(user, id, input) IN
    /\ ctxUser' = user
    /\ last' = Call("updateRenter", user # NoUser, id, input, err)
    /\ IF err # NoError THEN UNCHANGED <<roomStatus, renters, transactions>>
       ELSE IF RoomChanges(id, input)
       THEN /\ renters' = [renters EXCEPT ![id].roomId = input.roomId]
            /\ roomStatus' = MoveRoomStatus(roomStatus, id, input)
       ELSE UNCHANGED <<roomStatus, renters, transactions>>
    /\ UNCHANGED <<contracts, payments, events, paidOnce, inflight, transactions>>

DeleteRenterError(user, id) ==
    IF user = NoUser THEN "You must be authenticated to delete a renter"
    ELSE IF id \notin DOMAIN renters THEN "Renter not found"
    ELSE IF NotManagerOfRenter(user, renters[id])
    THEN "You do not have permission to delete this renter"
    ELSE NoError

\* deleteRenter; the store deletes the renter's payments with it (onDelete:
\* Cascade) and its ContractRenters links
DeleteRenter(user, id) ==
    LET err == DeleteRenterError(user, id) IN
    /\ ctxUser' = user
    /\ last' = Call("deleteRenter", user # NoUser, id, Null, err)
    /\ IF err # NoError THEN UNCHANGED <<roomStatus, renters, transactions, contracts, payments>>
       ELSE /\ renters' = Without(renters, id)
            /\ payments' = [p \in {q \in DOMAIN payments : payments[q].renterId # id}
                               |-> payments[p]]
            /\ contracts' = [c \in DOMAIN contracts |->
                                [contracts[c] EXCEPT !.renters = @ \ {id}]]
            /\ roomStatus' =
                   IF /\ renters[id].roomId # Null
                      /\ RentersIn(renters, renters[id].roomId, id) = {}
                   THEN [roomStatus EXCEPT ![renters[id].roomId] = "AVAILABLE"]
                   ELSE roomStatus
    /\ UNCHANGED <<events, paidOnce, inflight, transactions>>

\* ------------------------------------------------------------------ inputs
\* the ids a caller may name: those of the rows there can be
IdArgs(max) == {ToString(i) : i \in 1..max}

\* an unauthenticated call is rejected before its input is read: it is made
\* with one input
Callers(input, plain) == IF input = plain THEN BOOLEAN ELSE {TRUE}

\* a well-formed createContract input, and the same with one field changed
ContractInput(roomId, renterIds, status) ==
    [scalars |-> ContractScalars, renterIds |-> renterIds,
     roomId |-> roomId, status |-> status, contractType |-> Null]

PlainContractInput == ContractInput("r1", <<"x">>, Null)

MalformedContractInputs ==
    {[PlainContractInput EXCEPT !.scalars = ContractScalars \ {"amount"}],
     [PlainContractInput EXCEPT !.scalars = ContractScalars \ {"name", "endDate"}],
     [PlainContractInput EXCEPT !.renterIds = AbsentList],
     [PlainContractInput EXCEPT !.renterIds = << >>],
     [PlainContractInput EXCEPT !.roomId = Null],
     [PlainContractInput EXCEPT !.roomId = GhostRoom]}

RenterIdLists ==
    {<<"x">>, <<"x", "y">>, <<"x", "x">>, <<"x", GhostRenter>>}

CreateContractInputs ==
    {ContractInput(r, l, Null) : r \in Rooms, l \in RenterIdLists}
        \cup {ContractInput(r, <<"x">>, "PENDING") : r \in Rooms}
        \cup MalformedContractInputs

Reasons == {"non-payment"}
NoPatch == [status |-> Null, terminationReason |-> Null, terminationDate |-> Null]
StatusPatches == {[NoPatch EXCEPT !.status = st] : st \in ContractStatus \cup {Null}}
ContractPatches ==
    StatusPatches
        \cup {[status |-> "TERMINATED", terminationReason |-> r, terminationDate |-> d] :
                  r \in Reasons, d \in GivenDates}

TerminateInputs ==
    [reason : Reasons, terminationDate : GivenDates \cup {Null}]
        \cup [reason : {Null, ""}, terminationDate : {Null}]

CreateContractCall(max, inputs) ==
    \E input \in inputs :
    \E auth \in Callers(input, PlainContractInput) :
        /\ CreateContractError(auth, input) = NoError
              => Cardinality(DOMAIN contracts) < max
        /\ CreateContract(auth, input) /\ ctxUser' = Caller(auth)

UpdateContractCall(max, patches) ==
    \/ \E id \in IdArgs(max), patch \in patches :
       \E auth \in Callers(patch, NoPatch) :
           UpdateContract(auth, id, patch) /\ ctxUser' = Caller(auth)
    \/ UpdateContract(TRUE, GhostId, NoPatch) /\ ctxUser' = Caller(TRUE)

DeleteContractCall(max) ==
    \E id \in IdArgs(max) \cup {GhostId} : \E auth \in Callers(id, "1") :
        DeleteContract(auth, id) /\ ctxUser' = Caller(auth)

TerminateContractCall(max, inputs) ==
    \/ \E id \in IdArgs(max), input \in inputs :
       \E auth \in Callers(input.terminationDate, Null) :
           TerminateContract(auth, id, input.reason, input.terminationDate) /\ ctxUser' = Caller(auth)
    \/ \E r \in Reasons : TerminateContract(TRUE, GhostId, r, Null) /\ ctxUser' = Caller(TRUE)

MaintenanceInput(roomId, status) ==
    [scalars |-> MaintenanceScalars, roomId |-> roomId, status |-> status,
     priority |-> Null]

PlainMaintenanceInput == MaintenanceInput("r1", Null)

CreateMaintenanceEventInputs ==
    {MaintenanceInput(r, st) : r \in Rooms, st \in {Null, "IN_PROGRESS"}}
        \cup {[PlainMaintenanceInput EXCEPT !.scalars = {"title"}],
              [PlainMaintenanceInput EXCEPT !.roomId = Null],
              [PlainMaintenanceInput EXCEPT !.roomId = GhostRoom]}

NoMaintenancePatch == [status |-> Null, completedDate |-> Null, priority |-> Null]
MaintenancePatches ==
    [status : MaintenanceStatus \cup {Null}, completedDate : {Null}, priority : {Null}]
        \cup [status : {"COMPLETED"}, completedDate : GivenDates, priority : {Null}]

CreateMaintenanceEventCall(max, inputs) ==
    \E input \in inputs :
    \E auth \in Callers(input, PlainMaintenanceInput) :
        /\ CreateMaintenanceEventError(auth, input) = NoError
              => Cardinality(DOMAIN events) < max
        /\ CreateMaintenanceEvent(auth, input) /\ ctxUser' = Caller(auth)

UpdateMaintenanceEventCall(max, patches) ==
    \/ \E id \in IdArgs(max), patch \in patches :
       \E auth \in Callers(patch, NoMaintenancePatch) :
           UpdateMaintenanceEvent(auth, id, patch) /\ ctxUser' = Caller(auth)
    \/ UpdateMaintenanceEvent(TRUE, GhostId, NoMaintenancePatch) /\ ctxUser' = Caller(TRUE)

DeleteMaintenanceEventCall(max) ==
    \E id \in IdArgs(max) \cup {GhostId} : \E auth \in Callers(id, "1") :
        DeleteMaintenanceEvent(auth, id) /\ ctxUser' = Caller(auth)

PaymentInput(renterId, contractId, status) ==
    [scalars |-> PaymentScalars, renterId |-> renterId, contractId |-> contractId,
     status |-> status, paidDate |-> Null, description |-> Null]

PlainPaymentInput == PaymentInput("x", Null, "PENDING")

MalformedPaymentInputs ==
    {[PlainPaymentInput EXCEPT !.scalars = {"amount"}],
     [PlainPaymentInput EXCEPT !.status = Null],
     [PlainPaymentInput EXCEPT !.renterId = GhostRenter]}

CreatePaymentInputs(maxContracts) ==
    {PaymentInput("x", c, st) :
         c \in IdArgs(maxContracts) \cup {Null}, st \in {"PENDING", "PAID"}}
        \cup {PaymentInput("y", c, "PENDING") : c \in IdArgs(maxContracts)}
        \cup MalformedPaymentInputs

NoPaymentPatch ==
    [status |-> Null, paidDate |-> Null, renterId |-> Null, contractId |-> Null]
PaymentStatusPatches ==
    {[NoPaymentPatch EXCEPT !.status = st] : st \in PaymentStatus \cup {Null}}

\* patches that move a payment to another renter or another contract
PaymentLinkPatches ==
    {[NoPaymentPatch EXCEPT !.renterId = r, !.contractId = c] :
         r \in {Null, "x", "y", GhostRenter}, c \in {Null, "1", GhostId}}

MarkPaidInputs ==
    [paidDate : GivenDates \cup {Null}, reference : {Null}]
        \cup [paidDate : {Null}, reference : {"ref"}]

CreatePaymentCall(max, inputs) ==
    \E input \in inputs :
    \E auth \in Callers(input, PlainPaymentInput) :
        /\ CreatePaymentError(auth, input) = NoError
              => Cardinality(DOMAIN payments) < max
        /\ CreatePayment(auth, input) /\ ctxUser' = Caller(auth)

UpdatePaymentCall(max, patches) ==
    \/ \E id \in IdArgs(max), patch \in patches :
       \E auth \in Callers(patch, NoPaymentPatch) :
           UpdatePayment(auth, id, patch) /\ ctxUser' = Caller(auth)
    \/ UpdatePayment(TRUE, GhostId, NoPaymentPatch) /\ ctxUser' = Caller(TRUE)

DeletePaymentCall(max) ==
    \E id \in IdArgs(max) \cup {GhostId} : \E auth \in Callers(id, "1") :
        DeletePayment(auth, id) /\ ctxUser' = Caller(auth)

MarkPaymentAsPaidCall(max, inputs) ==
    \/ \E id \in IdArgs(max), input \in inputs :
       \E auth \in Callers(input.reference, "ref") :
           MarkPaymentAsPaid(auth, id, input.paidDate, input.reference) /\ ctxUser' = Caller(auth)
    \/ MarkPaymentAsPaid(TRUE, GhostId, Null, Null) /\ ctxUser' = Caller(TRUE)

\* ------------------------------------------------------------------ specifications
\* the contract mutations
ContractNext ==
    \/ CreateContractCall(MaxContracts, CreateContractInputs)
    \/ UpdateContractCall(MaxContracts, ContractPatches)
    \/ DeleteContractCall(MaxContracts)
    \/ TerminateContractCall(MaxContracts, TerminateInputs)

SpecContract == InitContract /\ [][ContractNext]_vars

\* closing contracts of rooms that have had several, with the same or other renters
ReleaseNext ==
    \/ CreateContractCall(MaxRoomContracts,
           {ContractInput(r, l, Null) :
                r \in Rooms, l \in {<<"x">>, <<"y">>, <<"x", "y">>}})
    \/ UpdateContractCall(MaxRoomContracts, StatusPatches)
    \/ TerminateContractCall(MaxRoomContracts,
           [reason : Reasons, terminationDate : {Null}])

SpecRelease == Init /\ [][ReleaseNext]_vars

\* the payment mutations, on the payments of a contract
PaymentNext ==
    \/ CreateContractCall(MaxContracts, {PlainContractInput})
    \/ DeleteContractCall(MaxContracts)
    \/ CreatePaymentCall(MaxPayments,
           {PaymentInput("x", c, st) :
                c \in IdArgs(MaxContracts) \cup {Null}, st \in {"PENDING", "PAID"}}
               \cup MalformedPaymentInputs)
    \/ UpdatePaymentCall(MaxPayments, PaymentStatusPatches)
    \/ DeletePaymentCall(MaxPayments)
    \/ MarkPaymentAsPaidCall(MaxPayments, MarkPaidInputs)

SpecPayment == Init /\ [][PaymentNext]_vars

\* payments created on and moved between renters and contracts
PaymentLinkNext ==
    \/ CreateContractCall(MaxContracts,
           {ContractInput("r1", l, Null) : l \in {<<"x">>, <<"x", "y">>}})
    \/ CreatePaymentCall(MaxPayments, CreatePaymentInputs(MaxContracts))
    \/ UpdatePaymentCall(MaxPayments, PaymentStatusPatches \cup PaymentLinkPatches)

SpecPaymentLink == Init /\ [][PaymentLinkNext]_vars

\* the maintenance mutations, on rooms that contracts occupy and release
MaintenanceNext ==
    \/ CreateContractCall(MaxContracts, {ContractInput(r, <<"x">>, Null) : r \in Rooms})
    \/ TerminateContractCall(MaxContracts, TerminateInputs)
    \/ CreateMaintenanceEventCall(MaxEvents, CreateMaintenanceEventInputs)
    \/ UpdateMaintenanceEventCall(MaxEvents, MaintenancePatches)
    \/ DeleteMaintenanceEventCall(MaxEvents)

SpecMaintenance == Init /\ [][MaintenanceNext]_vars

\* the maintenance status transitions, on free, reserved and occupied rooms
TransitionNext ==
    \/ CreateContractCall(MaxContracts, {ContractInput(r, <<"x">>, Null) : r \in Rooms})
    \/ CreateMaintenanceEventCall(MaxEvents,
           {MaintenanceInput(r, st) : r \in Rooms, st \in {Null, "IN_PROGRESS"}})
    \/ UpdateMaintenanceEventCall(MaxEvents, MaintenancePatches)
    \/ DeleteMaintenanceEventCall(MaxEvents)

SpecTransition == Init /\ [][TransitionNext]_vars

\* calls whose row write the store refuses, among calls that succeed
FailureNext ==
    \/ CreateContractCall(MaxContracts,
           {[ContractInput(r, <<"x">>, Null) EXCEPT !.contractType = t] :
                r \in Rooms, t \in {Null, "SHORT_TERM", "WEEKLY"}}
               \cup MalformedContractInputs)
    \/ TerminateContractCall(MaxContracts, TerminateInputs)
    \/ CreateMaintenanceEventCall(MaxEvents,
           {[MaintenanceInput(r, st) EXCEPT !.priority = pr] :
                r \in Rooms, st \in {Null, "IN_PROGRESS"}, pr \in {Null, "HIGH", "ASAP"}})
    \/ UpdateMaintenanceEventCall(MaxEvents,
           {[NoMaintenancePatch EXCEPT !.status = st, !.priority = pr] :
                st \in {Null, "IN_PROGRESS", "COMPLETED"}, pr \in {Null, "ASAP"}})

SpecFailure == Init /\ [][FailureNext]_vars

\* the maintenance calls await by await, with contract and delete calls between
\* their two writes
ConcurrentNext ==
    \/ CreateContractCall(MaxContracts, {ContractInput(r, <<"x">>, Null) : r \in Rooms})
    \/ TerminateContractCall(MaxContracts, [reason : Reasons, terminationDate : {Null}])
    \/ \E input \in {MaintenanceInput(r, st) : r \in Rooms, st \in {Null, "IN_PROGRESS"}} :
           /\ Cardinality(DOMAIN events) < MaxEvents
           /\ CreateMaintenanceEventRoomStep(TRUE, input)
    \/ CreateMaintenanceEventRowStep
    \/ \E id \in IdArgs(MaxEvents), patch \in MaintenancePatches :
           UpdateMaintenanceEventRoomStep(TRUE, id, patch)
    \/ UpdateMaintenanceEventRowStep
    \/ DeleteMaintenanceEventCall(MaxEvents)

SpecConcurrent == Init /\ [][ConcurrentNext]_vars

\* the subjects createContext resolves a token to (never ADMIN), and none
Subjects == {u \in Users : u.role # "ADMIN"} \cup {NoUser}

\* the rule of a resource and an action: a grant of the role, or else ownership
AuthorizeRules(resource, action) ==
    <<HasPermissionRule(resource, action), IsOwnerRule(resource, "id")>>

\* the mutations called by owners, by other accounts and without a token
PermissionNext ==
    \/ \E user \in Subjects, r \in Rooms :
           /\ Cardinality(DOMAIN contracts) < MaxContracts
           /\ CreateContract(user # NoUser, ContractInput(r, <<"x">>, Null))
           /\ ctxUser' = user
    \/ \E user \in Subjects, id \in IdArgs(MaxContracts) :
           /\ UpdateContract(user # NoUser, id, [NoPatch EXCEPT !.status = "EXPIRED"])
           /\ ctxUser' = user
    \/ \E user \in Subjects, id \in IdArgs(MaxContracts) :
           /\ DeleteContract(user # NoUser, id)
           /\ ctxUser' = user
    \/ \E user \in Subjects, id \in IdArgs(MaxContracts) :
           /\ TerminateContract(user # NoUser, id, "non-payment", Null)
           /\ ctxUser' = user
    \/ \E user \in Subjects :
           /\ Cardinality(DOMAIN payments) < MaxPayments
           /\ CreatePayment(user # NoUser, PlainPaymentInput)
           /\ ctxUser' = user
    \/ \E user \in Subjects, id \in IdArgs(MaxPayments) :
           /\ UpdatePayment(user # NoUser, id, [NoPaymentPatch EXCEPT !.status = "OVERDUE"])
           /\ ctxUser' = user
    \/ \E user \in Subjects, id \in IdArgs(MaxPayments) :
           /\ DeletePayment(user # NoUser, id)
           /\ ctxUser' = user
    \/ \E user \in Subjects, id \in IdArgs(MaxPayments) :
           /\ MarkPaymentAsPaid(user # NoUser, id, Null, Null)
           /\ ctxUser' = user
    \/ \E user \in Subjects, st \in {Null, "IN_PROGRESS"} :
           /\ Cardinality(DOMAIN events) < MaxEvents
           /\ CreateMaintenanceEvent(user # NoUser, MaintenanceInput("r1", st))
           /\ ctxUser' = user
    \/ \E user \in Subjects, id \in IdArgs(MaxEvents) :
           /\ UpdateMaintenanceEvent(user # NoUser, id,
                                     [NoMaintenancePatch EXCEPT !.status = "COMPLETED"])
           /\ ctxUser' = user
    \/ \E user \in Subjects, id \in IdArgs(MaxEvents) :
           /\ DeleteMaintenanceEvent(user # NoUser, id)
           /\ ctxUser' = user
    \/ \E user \in Subjects, id \in Rooms \cup {GhostRoom}, st \in {Null, "RESERVED"} :
           UpdateRoom(user, id, [status |-> st])
    \/ \E user \in Subjects, id \in Rooms, action \in {"read", "update"} :
           ApplyPermission(user, "or", AuthorizeRules("room", action), [id |-> id])

SpecPermission == Init /\ [][PermissionNext]_vars

\* the ids a rule may be asked about: of rows of each kind, of no row, none
ResourceIds == Rooms \cup {"p1", "x", Null} \cup IdArgs(MaxContracts)

\* rules and their and/or combinations, evaluated for every subject
AuthorizeNext ==
    \/ \E r \in Rooms :
           /\ Cardinality(DOMAIN contracts) < MaxContracts
           /\ CreateContract(TRUE, ContractInput(r, <<"x">>, Null))
           /\ ctxUser' = Caller(TRUE)
    \/ \E id \in IdArgs(MaxContracts) :
           /\ DeleteContract(TRUE, id)
           /\ ctxUser' = Caller(TRUE)
    \/ \E user \in Users \cup {NoUser},
          resource \in {"property", "room", "renter", "contract", "payment"},
          action \in {"read", "update"}, id \in ResourceIds :
       \E c \in {[comb |-> "or", rules |-> AuthorizeRules(resource, action)],
                 [comb |-> "and", rules |-> AuthorizeRules(resource, action)],
                 [comb |-> "or", rules |-> <<HasPermissionRule(resource, action)>>],
                 [comb |-> "and", rules |-> <<IsOwnerRule(resource, "id")>>]} :
           ApplyPermission(user, c.comb, c.rules, [id |-> id])

SpecAuthorize == Init /\ [][AuthorizeNext]_vars

\* the resources isOwner is asked about: those of its switch and one that is not
OwnedResources == {"property", "room", "renter", "document", "contract", "payment"}

\* the ids isOwner is asked about: of rows of each kind, of no row, none
OwnedIds ==
    Rooms \cup Properties \cup Renters \cup Documents
        \cup IdArgs(MaxContracts) \cup {GhostId, Null}

\* isOwner alone, for every account, while contracts and renters come and go
OwnershipNext ==
    \/ \E r \in Rooms :
           /\ Cardinality(DOMAIN contracts) < MaxContracts
           /\ CreateContract(TRUE, ContractInput(r, <<"x">>, Null))
           /\ ctxUser' = Caller(TRUE)
    \/ \E id \in IdArgs(MaxContracts) :
           /\ DeleteContract(TRUE, id)
           /\ ctxUser' = Caller(TRUE)
    \/ \E user \in {u \in Users : u.role = "ADMIN"}, id \in Renters :
           DeleteRenter(user, id)
    \/ \E user \in Users \cup {NoUser}, resource \in OwnedResources, id \in OwnedIds :
           ApplyPermission(user, "and", <<IsOwnerRule(resource, "id")>>, [id |-> id])

SpecOwnership == Init /\ [][OwnershipNext]_vars

\* the userRoles a user row can have: each role at most once, in any order
RoleLists ==
    {l \in UNION {[1..n -> RoleNames \cup {UnknownRole}] : n \in 0..MaxRoles} :
        \A i, j \in DOMAIN l : i # j => l[i] # l[j]}

\* users with every list of roles asking for every grant, and requests of the
\* same accounts on rooms and contracts
RolesNext ==
    \/ \E r \in Rooms :
           /\ Cardinality(DOMAIN contracts) < MaxContracts
           /\ CreateContract(TRUE, ContractInput(r, <<"x">>, Null))
           /\ ctxUser' = Caller(TRUE)
    \/ \E l \in RoleLists, isRenter \in BOOLEAN,
          resource \in {"renter", "room", "user"}, action \in {"read", "delete"} :
           HasPermissionOfUser([userRoles |-> l, isRenter |-> isRenter], resource, action)
    \/ \E id \in {"m1", "ux"}, l \in RoleLists, resource \in {"room", "contract"},
          action \in {"read", "delete"}, rid \in {"r1", "1", Null} :
           Request(id, l, "or", AuthorizeRules(resource, action), [id |-> rid])

SpecRoles == Init /\ [][RolesNext]_vars


\* createRenter inputs: complete, without a required field, with and without room
RenterInput(roomId) == [scalars |-> {"name", "phone"}, roomId |-> roomId]
CreateRenterInputs ==
    {RenterInput(r) : r \in Rooms \cup {Null, GhostRoom}}
        \cup {[RenterInput(Null) EXCEPT !.scalars = {"name"}],
              [RenterInput(Null) EXCEPT !.scalars = {"phone"}]}

\* the renter and room mutations, on rooms with and without contracts and
\* maintenance events
RenterNext ==
    \/ CreateContractCall(MaxContracts, {ContractInput("r1", <<"x">>, Null)})
    \/ CreateMaintenanceEventCall(MaxEvents, {MaintenanceInput("r2", "IN_PROGRESS")})
    \/ \E user \in Subjects, input \in CreateRenterInputs :
           /\ CreateRenterError(user, input) = NoError
                  => Cardinality(DOMAIN renters) < MaxRenters
           /\ CreateRenter(user, input)
    \/ \E user \in Subjects, id \in {"x", "1", GhostRenter},
          roomId \in Rooms \cup {Null, GhostRoom} :
           /\ user = NoUser => id = "x" /\ roomId = Null
           /\ UpdateRenter(user, id, [roomId |-> roomId])
    \/ \E user \in Subjects, id \in {"x", "1", GhostRenter} :
           /\ user = NoUser => id = "x"
           /\ DeleteRenter(user, id)
    \/ \E user \in {NoUser}, id \in Rooms, st \in {"OCCUPIED", "MAINTENANCE"} :
           UpdateRoom(user, id, [status |-> st])

SpecRenter == Init /\ [][RenterNext]_vars

\* createContract calls of two sessions, read by read and commit by commit
ConcurrentCreateNext ==
    \/ \E session \in Sessions, auth \in BOOLEAN,
          input \in {ContractInput(r, l, Null) :
                         r \in Rooms, l \in {<<"x">>, <<"y">>, <<"x", GhostRenter>>}} :
           /\ Cardinality(DOMAIN contracts) + Cardinality(DOMAIN transactions)
                  < MaxRoomContracts
           /\ CreateContractRead(session, auth, input)
    \/ \E session \in Sessions : CreateContractCommit(session)

SpecConcurrentCreate == Init /\ [][ConcurrentCreateNext]_vars

\* contracts created and closed on rooms that maintenance takes and gives back
OccupancyNext ==
    \/ CreateContractCall(MaxRoomContracts, {ContractInput("r1", <<"x">>, Null)})
    \/ TerminateContractCall(MaxRoomContracts, [reason : Reasons, terminationDate : {Null}])
    \/ CreateMaintenanceEventCall(MaxEvents,
           {MaintenanceInput(r, st) : r \in Rooms, st \in {Null, "IN_PROGRESS"}})
    \/ UpdateMaintenanceEventCall(MaxEvents, MaintenancePatches)
    \/ DeleteMaintenanceEventCall(MaxEvents)

SpecOccupancy == Init /\ [][OccupancyNext]_vars

\* the status of a contract and of a maintenance event, patched and closed
LifecycleNext ==
    \/ CreateContractCall(MaxContracts,
           {ContractInput("r1", <<"x">>, st) : st \in {Null, "PENDING"}})
    \/ UpdateContractCall(MaxContracts, StatusPatches)
    \/ TerminateContractCall(MaxContracts, [reason : Reasons, terminationDate : {Null}])
    \/ CreateMaintenanceEventCall(MaxEvents,
           {MaintenanceInput("r1", st) : st \in {Null, "IN_PROGRESS"}})
    \/ UpdateMaintenanceEventCall(MaxEvents,
           MaintenancePatches
               \cup {[NoMaintenancePatch EXCEPT !.completedDate = d] : d \in GivenDates})

SpecLifecycle == Init /\ [][LifecycleNext]_vars

\* several maintenance events on one room
SharedRoomNext ==
    \/ CreateMaintenanceEventCall(MaxRoomEvents,
           {MaintenanceInput("r1", st) : st \in {Null, "IN_PROGRESS"}})
    \/ UpdateMaintenanceEventCall(MaxRoomEvents, MaintenancePatches)
    \/ DeleteMaintenanceEventCall(MaxRoomEvents)

SpecSharedRoom == Init /\ [][SharedRoomNext]_vars

\* ------------------------------------------------------------------ claims
\* the rows of a table, and Room.status, are as before the call
StoreUnchanged == UNCHANGED <<roomStatus, contracts, payments, events, renters>>

ActiveContractsOn(r) ==
    {c \in DOMAIN contracts : contracts[c].roomId = r /\ contracts[c].status = "ACTIVE"}

\* C1: Invariant R1 -- a Room is OCCUPIED if and only if at least one Contract
\* that references it is ACTIVE.
C1_R1_OccupiedIffActiveContract ==
    \A r \in Rooms : roomStatus[r] = "OCCUPIED" <=> ActiveContractsOn(r) # {}

InProgressEventsOn(r) ==
    {e \in DOMAIN events : events[e].roomId = r /\ events[e].status = "IN_PROGRESS"}

\* C2: Invariant R2 -- a Room whose status is MAINTENANCE has at least one
\* IN_PROGRESS MaintenanceEvent.
C2_R2_MaintenanceHasEventInProgress ==
    \A r \in Rooms : roomStatus[r] = "MAINTENANCE" => InProgressEventsOn(r) # {}

\* an authenticated createContract call whose input carries every required field
CompleteContractCall(call) ==
    /\ call.op = "createContract"
    /\ call.auth
    /\ call.input.scalars = ContractScalars
    /\ call.input.renterIds # AbsentList
    /\ Len(call.input.renterIds) > 0
    /\ call.input.roomId # Null

\* C3: createContract on an existing AVAILABLE Room, with renterIds that all
\* exist and every required field, succeeds: the Room becomes OCCUPIED and a new
\* Contract references it, with the requested status and exactly those renters.
C3_CreateContractSucceeds ==
    [][(/\ CompleteContractCall(last')
        /\ last'.input.roomId \in Rooms
        /\ roomStatus[last'.input.roomId] = "AVAILABLE"
        /\ \A i \in DOMAIN last'.input.renterIds : last'.input.renterIds[i] \in DOMAIN renters)
       => /\ last'.error = NoError
          /\ roomStatus'[last'.input.roomId] = "OCCUPIED"
          /\ \E c \in DOMAIN contracts' \ DOMAIN contracts :
                /\ contracts'[c].roomId = last'.input.roomId
                /\ contracts'[c].renters = Range(last'.input.renterIds)
                /\ contracts'[c].status =
                       IF last'.input.status = Null THEN "ACTIVE" ELSE last'.input.status
      ]_vars

\* the Conflict createContract reports for a Room of this status
RoomConflict(status) ==
    CASE status = "OCCUPIED" -> "Room is currently occupied"
      [] status = "RESERVED" -> "Room is currently reserved"
      [] status = "MAINTENANCE" -> "Room is currently maintenance"

\* C4: createContract on a Room that is OCCUPIED, RESERVED or MAINTENANCE fails,
\* creates no Contract and leaves every Room as it was; the error of a complete,
\* authenticated call is the Conflict that names the Room's status.
C4_CreateContractOnBusyRoomFails ==
    [][(/\ last'.op = "createContract"
        /\ last'.id \in Rooms
        /\ roomStatus[last'.id] # "AVAILABLE")
       => /\ last'.error # NoError
          /\ StoreUnchanged
          /\ CompleteContractCall(last') => last'.error = RoomConflict(roomStatus[last'.id])
      ]_vars

\* a second createContract on the Room a first one occupied fails
C4_Witness ==
    /\ last.op = "createContract"
    /\ CompleteContractCall(last)
    /\ last.error = "Room is currently occupied"
    /\ \E c \in DOMAIN contracts : contracts[c].roomId = last.id

\* the contracts that block the release of the Room of contract id, as the
\* release rule states them: ACTIVE, on the same Room, sharing a renter
ActiveSharing(cs, id) ==
    {c \in DOMAIN cs \ {id} :
        /\ cs[c].roomId = cs[id].roomId
        /\ cs[c].renters \cap cs[id].renters # {}
        /\ cs[c].status = "ACTIVE"}

\* a call that closed a contract: terminateContract, or updateContract with a
\* patch whose status is TERMINATED or EXPIRED
Closed(call) ==
    /\ call.error = NoError
    /\ \/ call.op = "terminateContract"
       \/ call.op = "updateContract" /\ call.input \in {"TERMINATED", "EXPIRED"}

\* C5: room release -- when a contract is closed, its Room becomes AVAILABLE
\* unless another contract on the Room that shares a renter with it is ACTIVE,
\* and then the Room's status is left as it was.
C5_RoomReleasedUnlessActiveSharing ==
    [][Closed(last')
       => LET room == contracts'[last'.id].roomId IN
          IF ActiveSharing(contracts', last'.id) = {}
          THEN roomStatus'[room] = "AVAILABLE"
          ELSE roomStatus'[room] = roomStatus[room]
      ]_vars

AlreadyClosed(status) ==
    CASE status = "TERMINATED" -> "Contract is already terminated"
      [] status = "EXPIRED" -> "Contract is already expired"

\* C6: terminateContract on a Contract that is TERMINATED or EXPIRED fails and
\* leaves the Contract and every Room as they were; the error of an authenticated
\* call that gives a reason is the Conflict "already terminated/expired".
C6_TerminateClosedContractFails ==
    [][(/\ last'.op = "terminateContract"
        /\ last'.id \in DOMAIN contracts
        /\ contracts[last'.id].status \in {"TERMINATED", "EXPIRED"})
       => /\ last'.error # NoError
          /\ StoreUnchanged
          /\ (last'.auth /\ last'.input.reason \notin {Null, ""})
                => last'.error = AlreadyClosed(contracts[last'.id].status)
      ]_vars

C6_Witness ==
    /\ last.op = "terminateContract"
    /\ last.error = "Contract is already expired"
    /\ contracts[last.id].status = "EXPIRED"

C8_DeleteContractWithPaymentsFails ==
    [][(/\ last'.op = "deleteContract"
        /\ last'.id \in DOMAIN contracts
        /\ \E p \in DOMAIN payments : payments[p].contractId = last'.id)
       => /\ last'.error # NoError
          /\ StoreUnchanged
          /\ last'.auth => last'.error =
                "Cannot delete a contract with associated payments. Terminate it instead."
      ]_vars

C8_Witness ==
    /\ last.op = "deleteContract"
    /\ last.error =
          "Cannot delete a contract with associated payments. Terminate it instead."
    /\ last.id \in DOMAIN contracts
    /\ \E p \in DOMAIN payments : payments[p].contractId = last.id

\* C9 (invariant P1): a Payment that has reached status PAID is never deleted
\* afterwards and never marked PAID again, whatever payment operations
\* (updatePayment, markPaymentAsPaid, deletePayment) follow.
C9_OncePaidNeverDeletedOrRemarked ==
    [][\A p \in paidOnce :
          /\ p \in DOMAIN payments'
          /\ ~(/\ last'.op = "markPaymentAsPaid"
               /\ last'.id = p
               /\ last'.error = NoError)
      ]_vars

C11_PaymentContractIncludesRenter ==
    \A p \in DOMAIN payments :
        payments[p].contractId # Null
            => /\ payments[p].contractId \in DOMAIN contracts
               /\ payments[p].renterId \in contracts[payments[p].contractId].renters

\* C12: a createMaintenanceEvent with status IN_PROGRESS that succeeds, and an
\* updateMaintenanceEvent that moves an event that is not IN_PROGRESS to
\* IN_PROGRESS, leave the event's Room MAINTENANCE whatever its status was.
C12_InProgressPutsRoomInMaintenance ==
    [][/\ (/\ last'.op = "createMaintenanceEvent"
           /\ last'.error = NoError
           /\ last'.input.status = "IN_PROGRESS")
          => /\ roomStatus'[last'.input.roomId] = "MAINTENANCE"
             /\ \E e \in DOMAIN events' \ DOMAIN events :
                    /\ events'[e].roomId = last'.input.roomId
                    /\ events'[e].status = "IN_PROGRESS"
       /\ (/\ last'.op = "updateMaintenanceEvent"
           /\ last'.error = NoError
           /\ last'.input.status = "IN_PROGRESS"
           /\ events[last'.id].status # "IN_PROGRESS")
          => /\ roomStatus'[events[last'.id].roomId] = "MAINTENANCE"
             /\ events'[last'.id].status = "IN_PROGRESS"
      ]_vars

\* an event of a room that a contract occupies has been moved to IN_PROGRESS
C12_Witness ==
    /\ last.op = "updateMaintenanceEvent"
    /\ last.error = NoError
    /\ last.input.status = "IN_PROGRESS"
    /\ roomStatus[events[last.id].roomId] = "MAINTENANCE"
    /\ ActiveContractsOn(events[last.id].roomId) # {}

\* C13: an updateMaintenanceEvent that succeeds with a patch whose status is
\* COMPLETED leaves the event with completedDate now when the patch supplies
\* none, and, with or without a completedDate in the patch, leaves the
\* event's Room AVAILABLE when that Room was MAINTENANCE.
C13_CompletedStampsAndReleasesRoom ==
    [][(/\ last'.op = "updateMaintenanceEvent"
        /\ last'.error = NoError
        /\ last'.input.status = "COMPLETED")
       => /\ last'.input.completedDate = Null
                => events'[last'.id].completedDate = Now
          /\ roomStatus[events[last'.id].roomId] = "MAINTENANCE"
                => roomStatus'[events[last'.id].roomId] = "AVAILABLE"
      ]_vars

\* C14: deleteMaintenanceEvent on an event whose status is IN_PROGRESS fails
\* (for an authenticated caller, with the Conflict "Cannot delete a maintenance
\* event that is in progress"); the event still exists and nothing, its Room's
\* status included, has changed.
C14_DeleteInProgressEventFails ==
    [][(/\ last'.op = "deleteMaintenanceEvent"
        /\ last'.id \in DOMAIN events
        /\ events[last'.id].status = "IN_PROGRESS")
       => /\ last'.error # NoError
          /\ last'.auth => last'.error =
                "Cannot delete a maintenance event that is in progress. Complete or cancel it first."
          /\ last'.id \in DOMAIN events'
          /\ roomStatus'[events[last'.id].roomId] = roomStatus[events[last'.id].roomId]
          /\ StoreUnchanged
      ]_vars

\* an authenticated deleteMaintenanceEvent was refused on an event in progress
C14_Witness ==
    /\ last.op = "deleteMaintenanceEvent"
    /\ last.auth
    /\ last.error # NoError
    /\ last.id \in DOMAIN events
    /\ events[last.id].status = "IN_PROGRESS"
    /\ roomStatus[events[last.id].roomId] = "MAINTENANCE"

\* C15: createContract, updateContract, terminateContract and the maintenance
\* status transitions are atomic: no state that another call can read shows
\* the Room-status write of a call without its Contract or MaintenanceEvent
\* write.
C15_NoHalfAppliedTransition ==
    ~(inflight.op # Null /\ inflight.wroteRoom)

\* C16: a coordinator call that fails, at whichever step it throws (the
\* Contract or MaintenanceEvent write after the Room write included), leaves
\* every Room, Contract, Payment and MaintenanceEvent as before the call.
C16_FailedCallChangesNothing ==
    [][last'.error # NoError => StoreUnchanged]_vars

\* the contract, payment and maintenance mutations, with the resource and the
\* action each is a mutation of
CoordinatorOps ==
    {"createContract", "updateContract", "deleteContract", "terminateContract",
     "createPayment", "updatePayment", "deletePayment", "markPaymentAsPaid",
     "createMaintenanceEvent", "updateMaintenanceEvent", "deleteMaintenanceEvent"}

OpResource(op) ==
    IF op \in {"createContract", "updateContract", "deleteContract", "terminateContract"}
    THEN "contract"
    ELSE IF op \in {"createPayment", "updatePayment", "deletePayment", "markPaymentAsPaid"}
    THEN "payment"
    ELSE IF op = "updateRoom" THEN "room"
    ELSE "maintenance"

OpAction(op) ==
    IF op \in {"createContract", "createPayment", "createMaintenanceEvent"} THEN "create"
    ELSE IF op \in {"deleteContract", "deletePayment", "deleteMaintenanceEvent"} THEN "delete"
    ELSE "update"

\* the decision for a subject, a resource, an action and a resource id: a grant
\* of the subject's role, or else ownership of the instance
Authorize(user, resource, action, id) ==
    or(AuthorizeRules(resource, action), user, [id |-> id])

\* C17: a coordinator mutation (contract, payment, maintenance) called by a
\* subject whom the permission rule for its resource, action and resource id
\* does not allow fails, and no Room, Contract, Payment or MaintenanceEvent
\* is changed.
C17_DeniedCallChangesNothing ==
    [][(/\ last'.op \in CoordinatorOps
        /\ Authorize(ctxUser', OpResource(last'.op), OpAction(last'.op),
                     IF OpAction(last'.op) = "create" THEN Null ELSE last'.id)
               # "true")
       => last'.error # NoError /\ StoreUnchanged
      ]_vars

\* C18: the rule "role grant or else ownership" applied for a subject whose
\* role is not ADMIN and who is not the owner of the resource instance denies
\* (the wrapped resolver is not run); for a subject whose role is ADMIN it
\* allows, whatever the resource, the action and the id.
C18_AuthorizationSoundness ==
    [][\A resource \in Resources, action \in Actions :
           (/\ last'.op = "applyPermission"
            /\ last'.input = [comb |-> "or", rules |-> AuthorizeRules(resource, action)])
           => /\ ctxUser'.role = "ADMIN" => last'.error = NoError
              /\ (/\ ctxUser' # NoUser
                  /\ ctxUser'.role # "ADMIN"
                  /\ OwnerUserId(resource, last'.id) # ctxUser'.id)
                 => last'.error = NotAuthorized
      ]_vars

\* C19: updateRoom called by a subject of role USER on a Room whose Property
\* the subject does not own fails and leaves the Room as it was.
C19_UserCannotUpdateRoomOfOthers ==
    [][(/\ last'.op = "updateRoom"
        /\ ctxUser'.role = "USER"
        /\ last'.id \in Rooms
        /\ OwnerUserId("room", last'.id) # ctxUser'.id)
       => last'.error # NoError /\ roomStatus' = roomStatus
      ]_vars

\* C20: without a subject every permission rule refuses, and every mutation
\* (updateRoom and the contract, payment and maintenance mutations) fails and
\* leaves every Room, Contract, Payment and MaintenanceEvent unchanged.
C20_NoSubjectNoMutation ==
    [][(/\ ctxUser' = NoUser
        /\ last'.op \in CoordinatorOps \cup {"updateRoom", "applyPermission"})
       => last'.error # NoError /\ StoreUnchanged
      ]_vars

\* R1 and R2 of a Room table against a Contract and a MaintenanceEvent table
OccupiedIffActive(rs, cs) ==
    \A r \in Rooms :
        rs[r] = "OCCUPIED"
            <=> \E c \in DOMAIN cs : cs[c].roomId = r /\ cs[c].status = "ACTIVE"

MaintenanceOnlyInProgress(rs, es) ==
    \A r \in Rooms :
        rs[r] = "MAINTENANCE"
            => \E e \in DOMAIN es : es[e].roomId = r /\ es[e].status = "IN_PROGRESS"

\* C21: createRenter, updateRenter, deleteRenter and updateRoom keep R1 and R2:
\* called in a state where every Room is OCCUPIED iff it has an ACTIVE Contract
\* and MAINTENANCE only if it has an IN_PROGRESS MaintenanceEvent, they leave
\* a state where both still hold.
C21_DirectRoomWritesKeepR1R2 ==
    [][(/\ last'.op \in {"createRenter", "updateRenter", "deleteRenter", "updateRoom"}
        /\ OccupiedIffActive(roomStatus, contracts)
        /\ MaintenanceOnlyInProgress(roomStatus, events))
       => /\ OccupiedIffActive(roomStatus', contracts')
          /\ MaintenanceOnlyInProgress(roomStatus', events')
      ]_vars

\* C22: of the createContract calls that run at the same time on one AVAILABLE
\* Room at most one succeeds: where no contract is ever closed or deleted, no
\* Room is referenced by two Contracts.
C22_OneContractPerAvailableRoom ==
    \A c, d \in DOMAIN contracts : contracts[c].roomId = contracts[d].roomId => c = d

\* C23: whatever contract and maintenance mutations have run, one after the
\* other, no Room is referenced by two Contracts whose status is ACTIVE.
C23_AtMostOneActiveContractPerRoom ==
    \A r \in Rooms : Cardinality(ActiveContractsOn(r)) <= 1

\* C24: a Contract that is TERMINATED or EXPIRED keeps its status through every
\* call, a MaintenanceEvent that is COMPLETED or CANCELLED keeps its status
\* through every call, and a MaintenanceEvent becomes COMPLETED only from
\* IN_PROGRESS.
C24_TerminalStatusesAbsorb ==
    [][/\ \A c \in DOMAIN contracts \cap DOMAIN contracts' :
              contracts[c].status \in {"TERMINATED", "EXPIRED"}
                  => contracts'[c].status = contracts[c].status
       /\ \A e \in DOMAIN events \cap DOMAIN events' :
              /\ events[e].status \in {"COMPLETED", "CANCELLED"}
                     => events'[e].status = events[e].status
              /\ (events'[e].status = "COMPLETED" /\ events[e].status # "COMPLETED")
                     => events[e].status = "IN_PROGRESS"
      ]_vars

\* C25: a complete, authenticated createContract on an existing AVAILABLE Room
\* fails with "One or more renters not found" exactly when some id of renterIds
\* names no Renter (repeating an id that exists does not make it fail), and
\* when it fails so no Contract is created and the Room stays AVAILABLE.
C25_RenterNotFoundIffSomeIdMissing ==
    [][(/\ CompleteContractCall(last')
        /\ last'.input.roomId \in Rooms
        /\ roomStatus[last'.input.roomId] = "AVAILABLE")
       => /\ last'.error = "One or more renters not found"
              <=> \E i \in DOMAIN last'.input.renterIds :
                      last'.input.renterIds[i] \notin DOMAIN renters
          /\ last'.error = "One or more renters not found"
              => /\ StoreUnchanged
                 /\ roomStatus'[last'.input.roomId] = "AVAILABLE"
      ]_vars

\* C26: whatever createMaintenanceEvent and updateMaintenanceEvent calls have
\* run, a MaintenanceEvent that carries a completedDate has status COMPLETED.
C26_CompletedDateOnlyWhenCompleted ==
    \A e \in DOMAIN events :
        events[e].completedDate # Null => events[e].status = "COMPLETED"

\* C27: a Room on which some MaintenanceEvent is IN_PROGRESS has status
\* MAINTENANCE, also after another IN_PROGRESS event on it was completed or
\* cancelled.
C27_InProgressEventKeepsRoomInMaintenance ==
    \A r \in Rooms : InProgressEventsOn(r) # {} => roomStatus[r] = "MAINTENANCE"
\* the owner of a resource instance: the account of the property of a property,
\* of a room's property, of the property of a contract's room, and the account
\* linked to a renter; NoOwner for a row that is not there or has no such account
NoOwner == "no owner"
OwnerOf(resource, id) ==
    IF resource = "property" /\ id \in Properties THEN PropertyUserId[id]
    ELSE IF resource = "room" /\ id \in Rooms THEN PropertyUserId[RoomProperty[id]]
    ELSE IF resource = "renter" /\ id \in DOMAIN renters /\ id \in Renters
                                /\ RenterUser[id] # Null
    THEN RenterUser[id]
    ELSE IF resource = "contract" /\ id \in DOMAIN contracts
                                  /\ contracts[id].roomId \in Rooms
    THEN PropertyUserId[RoomProperty[contracts[id].roomId]]
    ELSE NoOwner

\* a call of applyPermission with the rule isOwner(resource, "id") alone
IsOwnerCall(resource) ==
    /\ last'.op = "applyPermission"
    /\ last'.input.rules = <<IsOwnerRule(resource, "id")>>

\* C28: for a subject that is not ADMIN, the ownership check on a property, a
\* room, a renter or a contract allows exactly when the owner of the instance
\* (the property's userId, the userId of the room's property, the User linked
\* to the renter, the owner through the contract's room and property) is the
\* subject; an id of no row, no id, and a resource kind the check does not
\* know are denied with "Not authorized", never with another error.
C28_OwnershipAllowsIffOwner ==
    [][\A resource \in OwnedResources :
          (IsOwnerCall(resource) /\ ctxUser' # NoUser /\ ctxUser'.role # "ADMIN")
          => /\ last'.error \in {NoError, NotAuthorized}
             /\ resource \in {"property", "room", "renter", "contract"}
                    => (last'.error = NoError <=> OwnerOf(resource, last'.id) = ctxUser'.id)
             /\ resource = "payment" => last'.error = NotAuthorized
      ]_vars

\* the owner of a contract was allowed, and another manager was denied on it
C28_OwnerAllowedOnContract ==
    /\ last.op = "applyPermission"
    /\ last.input.rules = <<IsOwnerRule("contract", "id")>>
    /\ last.id \in DOMAIN contracts
    /\ contracts[last.id].roomId = "r2"
    /\ ctxUser = [id |-> "m2", role |-> "PROPERTY_MANAGER"]
    /\ last.error = NoError

\* the grant of a list of roles: ADMIN among them, or the pair among the
\* explicit permissions of one of them
Grants(roles, resource, action) ==
    \/ "ADMIN" \in Range(roles)
    \/ \E role \in Range(roles) : <<resource, action>> \in RolePermissions(role)

\* C29: a grant is given to ADMIN for every resource and action, to another
\* role exactly when its explicit permissions hold that resource and action,
\* and never to a role the registry does not know or to a user without roles:
\* both for a user checked with its list of roles and for the role of the
\* subject of a request.
C29_GrantIffAdminOrExplicitPermission ==
    [][/\ last'.op = "hasPermission"
          => (last'.error = "true"
                <=> Grants(last'.input.user.userRoles, last'.input.resource,
                           last'.input.action))
       /\ last'.op = "request"
          => \A resource \in Resources, action \in Actions :
                (hasPermission(resource, action, ctxUser', [id |-> last'.id]) = "true"
                    <=> Grants(<<ctxUser'.role>>, resource, action))
      ]_vars

\* the lists of the same roles in every order
Reorderings(l) == {m \in RoleLists : Len(m) = Len(l) /\ Range(m) = Range(l)}

\* C30: the decision for a user depends on the set of its roles and not on
\* their order: with the userRoles in any other order a request gets the same
\* subject role and the same result, and a check of the user's grants the same
\* answer.
C30_DecisionIndependentOfRoleOrder ==
    [][/\ last'.op = "request"
          => \A m \in Reorderings(last'.input.userRoles) :
                /\ createContext(ctxUser'.id, m).role = ctxUser'.role
                /\ ApplyPermissionError(
                       Combine(last'.input.comb, last'.input.rules,
                               createContext(ctxUser'.id, m), [id |-> last'.id]))
                   = last'.error
       /\ last'.op = "hasPermission"
          => \A m \in Reorderings(last'.input.user.userRoles) :
                hasPermissionOfUser([last'.input.user EXCEPT !.userRoles = m],
                                    last'.input.resource, last'.input.action)
                = last'.error
      ]_vars

====
